---- MODULE Spec2Model ----
(***************************************************************************)
(* Model of the PocketLlama2 firmware runtime: the boundary-tag heap       *)
(* allocator of src/firmware/libc/memory.c.                                *)
(*                                                                         *)
(* Memory is an array of 4-byte cells addressed by byte address; a block   *)
(* header is two cells (size with the used flag in bit 0, prev_size).      *)
(* Addresses and sizes are unsigned machine words of WordBits bits and     *)
(* all arithmetic on them wraps modulo Word, as uint32_t/size_t/uintptr_t  *)
(* arithmetic does on the 32-bit target.                                   *)
(***************************************************************************)
EXTENDS Integers, Sequences, FiniteSets, TLC

\* ------------------------------------------------------------------ bounds
\* Width of the machine word in the model (32 on the target).
WordBits == 8
\* The region handed to heap_init: start address and size in 8-byte units.
ArenaStart == 8
ArenaUnits == 6
\* Largest ordinary request, in 8-byte units.
MaxReqUnits == 1
\* Number of further calls followed after the first call that is out of
\* contract: a request in the wrap-around range, or an erroneous release.
MaxPost == 2
\* Largest slot size the bridge reports.
MaxSlotSize == 3
\* Handles held at once in the specification of the per-handle calls.
MaxHeld == 1
\* Largest descriptor cursor followed (lseek accepts any target >= 0).
MaxCursor == 5

Word == 2 ^ WordBits
ArenaBytes == 8 * ArenaUnits
\* Modelled RAM: [0, MemBytes), the arena plus two header sizes of slack.
MemBytes == ArenaStart + ArenaBytes + 16
Addr == {a \in 0 .. (MemBytes - 1) : a % 4 = 0}

\* --------------------------------------------------------- program constants
NULL == 0
HeaderSize == 8
BLOCK_USED == 1
MIN_BLOCK_SIZE == 16
ALIGNMENT == 8
MAX_OPEN_FILES == 4
FD_SLOTS == 16

\* ------------------------------------------------------------- word helpers
\* Unsigned wrap-around of the machine word.
U(x) == x % Word
\* x & BLOCK_SIZE_MASK  (BLOCK_SIZE_MASK = ~0x3)
SizeOf(x) == x - (x % 4)
\* x & BLOCK_USED
IsUsed(x) == x % 2 = BLOCK_USED
\* A release that leaves the used flag set.
KeepUsed(x) == x
\* x & ~BLOCK_USED
ClearUsed(x) == x - (x % 2)
\* x | BLOCK_USED
SetUsed(x) == IF x % 2 = 1 THEN x ELSE x + 1
\* x & ~(ALIGNMENT - 1)
AlignDown(x) == x - (x % ALIGNMENT)

\* A load from / store to RAM; an address outside the modelled RAM (or a
\* misaligned one) reads 0 and stores nothing: the caller records it as wild.
Rd(m, a) == IF a \in Addr THEN m[a] ELSE 0
Wr(m, a, v) == IF a \in Addr THEN [m EXCEPT ![a] = v] ELSE m

VARIABLES
    heap_start,   \* arena start address (NULL before heap_init)
    heap_end,     \* arena end address
    mem,          \* RAM: cell address -> word
    live,         \* ghost: pointer -> requested size, for every allocation not yet released
    last,         \* ghost: the last call, its arguments, result and the RAM before it
    chain,        \* ghost: progress of an allocate / release / allocate sequence
    post,        \* ghost: 0, or the number of calls since (and with) the first out-of-contract call
    fault,        \* "none", or how the program stopped: "hang" (endless scan), "wild" (stray access)
    inflight,     \* the main context's malloc call in progress: its position and locals
    file_table,       \* the stream handle pool: entry -> FILE record
    file_table_used,  \* entry -> 0 or 1
    held,         \* ghost: the handles fopen returned that were not closed since
    flast,        \* ghost: the last stream call, its arguments, result and bridge read
    fd_offset,    \* the descriptor table: slot -> cursor
    fd_size,      \* slot -> recorded size
    fd_used,      \* slot -> 0 or 1
    dlast         \* ghost: the last descriptor call, its arguments, result and bridge read

\* The allocator's and the file layer's variables.
avars == <<heap_start, heap_end, mem, live, last, chain, post, fault, inflight>>
fvars == <<file_table, file_table_used, held, flast>>
\* The descriptor table, and the descriptor layer's variables.
dtab == <<fd_offset, fd_size, fd_used>>
dvars == <<fd_offset, fd_size, fd_used, dlast>>
vars == <<heap_start, heap_end, mem, live, last, chain, post, fault, inflight,
          file_table, file_table_used, held, flast,
          fd_offset, fd_size, fd_used, dlast>>

\* ------------------------------------------------------------------ heap_init
heap_init(m, start, size) ==
    LET aligned_start == AlignDown(U(start + ALIGNMENT - 1))
        size1 == U(size - (aligned_start - start))
        size2 == AlignDown(size1)
        m1 == Wr(m, aligned_start, size2)
        m2 == Wr(m1, aligned_start + 4, 0)
    IN [heap_start |-> aligned_start,
        heap_end |-> U(aligned_start + size2),
        mem |-> m2]

\* ----------------------------------------------------------------- align_size
align_size(size) ==
    LET total == U(size + HeaderSize)
        total2 == IF total < MIN_BLOCK_SIZE THEN MIN_BLOCK_SIZE ELSE total
    IN AlignDown(U(total2 + ALIGNMENT - 1))

\* --------------------------------------------------------------------- malloc
\* !(block->size & BLOCK_USED) && block_size >= needed
Fits(hdr, needed) == ~IsUsed(hdr) /\ SizeOf(hdr) >= needed
\* block_size >= needed + MIN_BLOCK_SIZE
CanSplit(block_size, needed) == block_size >= U(needed + MIN_BLOCK_SIZE)

NoFit == -1
Hang == -2

\* A scan that goes on to the arena end and chooses the last block that fits.
RECURSIVE LastFit(_, _, _, _, _)
LastFit(m, he, block, needed, fuel) ==
    IF ~(block < he) THEN NoFit
    ELSE IF fuel = 0 THEN Hang
    ELSE LET block_size == SizeOf(Rd(m, block))
             later == IF block_size = 0 THEN NoFit
                      ELSE LastFit(m, he, U(block + block_size), needed, fuel - 1)
         IN IF later # NoFit THEN later
            ELSE IF Fits(Rd(m, block), needed) THEN block
            ELSE IF block_size = 0 THEN Hang
            ELSE NoFit

\* The first-fit loop of malloc from `block`: the address of the block chosen,
\* NoFit when the scan reaches heap_end, Hang when it never ends (a block of
\* size 0 that does not fit, or a cycle: the fuel is the number of cells).
RECURSIVE FirstFit(_, _, _, _, _)
FirstFit(m, he, block, needed, fuel) ==
    IF ~(block < he) THEN NoFit
    ELSE IF fuel = 0 THEN Hang
    ELSE LET block_size == SizeOf(Rd(m, block)) IN
         IF Fits(Rd(m, block), needed) THEN block
         ELSE IF block_size = 0 THEN Hang
         ELSE FirstFit(m, he, U(block + block_size), needed, fuel - 1)

\* The split of the chosen block: the remainder's header, the backlink of the
\* block after it, then the chosen block's own size and flag.
Split(m, block, block_size, needed, he) ==
    LET next == U(block + needed)
        rest == U(block_size - needed)
        after_next == U(next + SizeOf(rest))
        m2 == Wr(Wr(m, next, rest), next + 4, needed)
    IN [mem |-> Wr(IF after_next < he THEN Wr(m2, after_next + 4, SizeOf(rest)) ELSE m2,
                   block, SetUsed(needed)),
        ret |-> U(block + HeaderSize), hang |-> FALSE,
        acc |-> {block, next, next + 4}
                \cup (IF after_next < he THEN {after_next + 4} ELSE {})]

\* What malloc does with the outcome of the scan.
Take(m, block, needed, he) ==
    IF block = NoFit THEN [mem |-> m, ret |-> NULL, hang |-> FALSE, acc |-> {}]
    ELSE IF block = Hang THEN [mem |-> m, ret |-> NULL, hang |-> TRUE, acc |-> {}]
    ELSE IF CanSplit(SizeOf(Rd(m, block)), needed)
    THEN Split(m, block, SizeOf(Rd(m, block)), needed, he)
    ELSE \* use entire block
         [mem |-> Wr(m, block, SetUsed(Rd(m, block))),
          ret |-> U(block + HeaderSize), hang |-> FALSE, acc |-> {block}]

\* A malloc that tests the chosen block's flag again before it writes.
ChosenIfFree(m, block, block_size, needed, he) ==
    IF IsUsed(Rd(m, block))
    THEN [mem |-> m, ret |-> NULL, hang |-> FALSE, acc |-> {}]
    ELSE IF CanSplit(block_size, needed)
    THEN Split(m, block, block_size, needed, he)
    ELSE [mem |-> Wr(m, block, SetUsed(Rd(m, block))),
          ret |-> U(block + HeaderSize), hang |-> FALSE, acc |-> {block}]

\* malloc from the split test on, for the block the scan has chosen and the
\* block_size read during the scan.
Chosen(m, block, block_size, needed, he) ==
    IF CanSplit(block_size, needed)
    THEN Split(m, block, block_size, needed, he)
    ELSE [mem |-> Wr(m, block, SetUsed(Rd(m, block))),
          ret |-> U(block + HeaderSize), hang |-> FALSE, acc |-> {block}]

malloc(m, hs, he, size) ==
    IF size = 0 \/ hs = NULL
    THEN [mem |-> m, ret |-> NULL, hang |-> FALSE, acc |-> {}]
    ELSE Take(m, FirstFit(m, he, hs, align_size(size), Cardinality(Addr)),
              align_size(size), he)

\* A validation that checks only the lower bound of the header address.
InHeapLowerOnly(block, hs, he) == block >= hs

\* ----------------------------------------------------------------------- free
\* The pointer validation: the header address lies in [heap_start, heap_end).
InHeap(block, hs, he) == ~(block < hs \/ block >= he)
\* (uint8_t *)next < heap_end && !(next->size & BLOCK_USED)
MergeNext(m, next, he) == next < he /\ ~IsUsed(Rd(m, next))
\* block->prev_size != 0
HasPrev(prev_size) == prev_size # 0
\* (uint8_t *)prev >= heap_start && !(prev->size & BLOCK_USED)
MergePrev(m, prev, hs) == prev >= hs /\ ~IsUsed(Rd(m, prev))

\* free is computed in stages over a record s: mem is RAM, block and
\* block_size the C variables, acc the cells read or written so far, back
\* whether the backward-merge branch (block->prev_size != 0) was entered.
\* Mark as free.
FreeMark(m, block) ==
    [mem |-> Wr(m, block, ClearUsed(Rd(m, block))),
     block |-> block,
     block_size |-> SizeOf(ClearUsed(Rd(m, block))),
     acc |-> {block},
     back |-> FALSE]

\* The next block is free: add its size, fix the backlink after the merged block.
FwdMerge(s, next, next_size, he) ==
    LET block_size == U(s.block_size + next_size)
        after_merged == U(s.block + block_size)
        m2 == Wr(s.mem, s.block, U(Rd(s.mem, s.block) + next_size))
    IN [s EXCEPT !.mem = IF after_merged < he THEN Wr(m2, after_merged + 4, block_size)
                         ELSE m2,
                 !.block_size = block_size,
                 !.acc = @ \cup {next}
                           \cup (IF after_merged < he THEN {after_merged + 4} ELSE {})]

\* Coalesce with next block if free.
FreeForward(s, he) ==
    LET next == U(s.block + s.block_size) IN
    IF MergeNext(s.mem, next, he)
    THEN FwdMerge(s, next, SizeOf(Rd(s.mem, next)), he)
    ELSE [s EXCEPT !.acc = @ \cup (IF next < he THEN {next} ELSE {})]

\* The previous block is free: it takes the block over; fix the backlink after it.
BwdMerge(s, prev, prev_size, he) ==
    LET size == U(prev_size + s.block_size)
        after_merged == U(prev + SizeOf(size))
        m4 == Wr(s.mem, prev, size)
    IN [s EXCEPT !.mem = IF after_merged < he THEN Wr(m4, after_merged + 4, SizeOf(size))
                         ELSE m4,
                 !.back = TRUE,
                 !.acc = @ \cup {s.block + 4, prev}
                           \cup (IF after_merged < he THEN {after_merged + 4} ELSE {})]

\* Coalesce with previous block if free.
FreeBackward(s, hs, he) ==
    LET prev == U(s.block - Rd(s.mem, s.block + 4)) IN
    IF ~HasPrev(Rd(s.mem, s.block + 4))
    THEN [s EXCEPT !.acc = @ \cup {s.block + 4}]
    ELSE IF ~MergePrev(s.mem, prev, hs)
    THEN [s EXCEPT !.back = TRUE,
                   !.acc = @ \cup {s.block + 4} \cup (IF prev >= hs THEN {prev} ELSE {})]
    ELSE BwdMerge(s, prev, SizeOf(Rd(s.mem, prev)), he)

Quiet(m) == [mem |-> m, block |-> NULL, block_size |-> 0, acc |-> {}, back |-> FALSE]

free(m, hs, he, ptr) ==
    IF ptr = NULL \/ hs = NULL THEN Quiet(m)
    ELSE IF ~InHeap(U(ptr - HeaderSize), hs, he) THEN Quiet(m)
    ELSE FreeBackward(FreeForward(FreeMark(m, U(ptr - HeaderSize)), he), hs, he)

\* --------------------------------------------------------------------- memset
\* Low `r` bytes (little-endian) of cell value `v` replaced by those of `w`.
LowBytes(v, w, r) == (v - (v % (256 ^ r))) + (w % (256 ^ r))

\* The pointer is word-aligned here (every caller passes a payload address):
\* n \div 4 whole cells are filled, then the n % 4 remaining bytes.
\* wild: a byte outside the modelled RAM was written.
memset(m, s, c, n) ==
    LET val32 == U(c * 16843009)
        k == n \div 4
        r == n % 4
        cells == {U(s + 4 * i) : i \in 0 .. (k - 1)}
        tail == U(s + 4 * k)
        m1 == [a \in Addr |-> IF a \in cells THEN val32 ELSE m[a]]
        m2 == IF r = 0 THEN m1 ELSE Wr(m1, tail, LowBytes(Rd(m1, tail), val32, r))
    IN [mem |-> m2,
        wild |-> ~((cells \cup (IF r = 0 THEN {} ELSE {tail})) \subseteq Addr)]

\* --------------------------------------------------------------------- memcpy
\* Both pointers are word-aligned here: n \div 4 cells are copied in ascending
\* order, then the n % 4 remaining bytes. Where dest lies inside the source
\* range, the ascending copy re-reads cells it has already written, so cell i
\* receives the original source cell i % ((dest - src) \div 4).
\* wild: a cell outside the modelled RAM was read or written.
memcpy(m, dest, src, n) ==
    LET k == n \div 4
        r == n % 4
        gap == (dest - src) \div 4
        from(i) == IF dest > src /\ gap <= i THEN i % gap ELSE i
        m1 == [a \in Addr |->
                 IF \E i \in 0 .. (k - 1) : a = U(dest + 4 * i)
                 THEN LET i == CHOOSE j \in 0 .. (k - 1) : a = U(dest + 4 * j)
                      IN Rd(m, U(src + 4 * from(i)))
                 ELSE m[a]]
        d == U(dest + 4 * k)
        s == U(src + 4 * k)
        m2 == IF r = 0 THEN m1 ELSE Wr(m1, d, LowBytes(Rd(m1, d), Rd(m1, s), r))
        touched == {U(dest + 4 * i) : i \in 0 .. (k - 1)}
                   \cup {U(src + 4 * i) : i \in 0 .. (k - 1)}
                   \cup (IF r = 0 THEN {} ELSE {d, s})
    IN [mem |-> m2, wild |-> ~(touched \subseteq Addr)]

\* --------------------------------------------------------------------- calloc
\* ptr = malloc(total); if (ptr != NULL) memset(ptr, 0, total);
Zeroed(r, total) ==
    IF r.ret # NULL
    THEN [mem |-> memset(r.mem, r.ret, 0, total).mem, ret |-> r.ret, hang |-> FALSE,
          wild |-> memset(r.mem, r.ret, 0, total).wild \/ ~(r.acc \subseteq Addr)]
    ELSE [mem |-> r.mem, ret |-> NULL, hang |-> r.hang, wild |-> FALSE]

calloc(m, hs, he, nmemb, size) ==
    IF nmemb # 0 /\ (U(nmemb * size) \div nmemb) # size
    THEN [mem |-> m, ret |-> NULL, hang |-> FALSE, wild |-> FALSE]
    ELSE Zeroed(malloc(m, hs, he, U(nmemb * size)), U(nmemb * size))

\* -------------------------------------------------------------------- realloc
\* freed: the old block was released (size = 0, or moved to a new block).
Released(f, ret, wild) ==
    [mem |-> f.mem, ret |-> ret, hang |-> FALSE,
     wild |-> wild \/ ~(f.acc \subseteq Addr), freed |-> TRUE]

\* memcpy(new_ptr, ptr, copy_size); free(ptr);
Copied(c, r, hs, he, ptr) ==
    Released(free(c.mem, hs, he, ptr), r.ret, c.wild \/ ~(r.acc \subseteq Addr))

\* Allocate new block and copy.
Moved(r, hs, he, ptr, size, current_size) ==
    IF r.ret # NULL
    THEN Copied(memcpy(r.mem, r.ret, ptr, IF size < current_size THEN size ELSE current_size),
                r, hs, he, ptr)
    ELSE [mem |-> r.mem, ret |-> NULL, hang |-> r.hang, wild |-> FALSE, freed |-> FALSE]

\* A test against the usable size (current_size) instead of the block size.
FitsInUsable(needed, hdr) == needed <= SizeOf(hdr) - HeaderSize
\* needed <= (block->size & BLOCK_SIZE_MASK)
FitsInPlace(needed, hdr) == needed <= SizeOf(hdr)

Plain(r) ==
    [mem |-> r.mem, ret |-> r.ret, hang |-> r.hang,
     wild |-> ~(r.acc \subseteq Addr), freed |-> FALSE]

realloc(m, hs, he, ptr, size) ==
    IF ptr = NULL THEN Plain(malloc(m, hs, he, size))
    ELSE IF size = 0 THEN Released(free(m, hs, he, ptr), NULL, FALSE)
    ELSE IF FitsInPlace(align_size(size), Rd(m, U(ptr - HeaderSize)))
    THEN [mem |-> m, ret |-> ptr, hang |-> FALSE, wild |-> FALSE, freed |-> FALSE]
    ELSE Moved(malloc(m, hs, he, size), hs, he, ptr, size,
               U(SizeOf(Rd(m, U(ptr - HeaderSize))) - HeaderSize))

\* ------------------------------------------------------------- request sizes
\* Ordinary requests: 0, 9, the multiples of 8 up to 8 * MaxReqUnits, and one
\* request as large as the whole region.
SmallSizes == {0, 9} \cup {8 * k : k \in 1 .. MaxReqUnits} \cup {ArenaBytes}
\* Requests near the top of the size_t range, where size + sizeof(header)
\* and the round-up to ALIGNMENT wrap around.
WrapSizes == {Word - 9, Word - 4}
ReqSizes == SmallSizes \cup WrapSizes

\* ------------------------------------------------------------------ file pool
\* The pool entries are file_table[0 .. MAX_OPEN_FILES - 1]; a FILE * is the
\* index of its entry, NoFile is the NULL FILE *.
Handles == 0 .. (MAX_OPEN_FILES - 1)
NoFile == -1
\* A FILE of the zero-initialised static table; data = 0 is the NULL buffer.
ZeroFile == [slot_id |-> 0, offset |-> 0, flags |-> 0, size |-> 0, data |-> NULL]
NoCall == [op |-> "none", h |-> NoFile, a |-> 0, b |-> 0, w |-> "", ok |-> 0, ret |-> 0,
           rd |-> <<>>, pre |-> ZeroFile]
\* The descriptor table's entries are indexed by slot id; FD_SLOTS is their
\* number. No descriptor call was made yet: NoDesc.
DescSlots == 0 .. (FD_SLOTS - 1)
NoDesc == [op |-> "none", fd |-> 0, a |-> 0, w |-> "", ok |-> 0, ret |-> 0, rd |-> <<>>,
           pre |-> [offset |-> 0, size |-> 0, used |-> 0]]
FileInit ==
    /\ file_table = [i \in Handles |-> ZeroFile]
    /\ file_table_used = [i \in Handles |-> 0]
    /\ held = {}
    /\ flast = NoCall
    /\ fd_offset = [i \in DescSlots |-> 0]
    /\ fd_size = [i \in DescSlots |-> 0]
    /\ fd_used = [i \in DescSlots |-> 0]
    /\ dlast = NoDesc

\* ---------------------------------------------------------------- ghost state
ZeroMem == [a \in Addr |-> 0]
NoChain == [stage |-> "none", n |-> 0, p |-> NULL, pre |-> ZeroMem]

\* No malloc call of the main context is in progress. Otherwise: stage
\* "selected" (the scan has chosen `block`, no header is written yet) or
\* "done" (the call has returned), the call's n and its locals needed, block
\* and block_size, and whether an interrupt handler's malloc(in) ran in
\* between, with its result iret.
NoFlight == [stage |-> "none", n |-> 0, needed |-> 0, block |-> 0, block_size |-> 0,
             irq |-> FALSE, in |-> 0, iret |-> NULL]

\* The record of the last call: its arguments and result, RAM before it, the
\* cells release accessed, whether release entered its backward merge, and
\* whether an allocation returned a pointer that was live already.
Call(op, a, b, ret, acc, back) ==
    [op |-> op, a |-> a, b |-> b, ret |-> ret, pre |-> mem, acc |-> acc, back |-> back,
     dup |-> op \in {"malloc", "calloc", "mmap"} /\ ret \in DOMAIN live]

Stop(hang, wild) == IF hang THEN "hang" ELSE IF wild THEN "wild" ELSE "none"

\* A call is followed while at most MaxPost calls came after the first
\* out-of-contract call.
Admit == post <= MaxPost
Count(odd) == IF post > 0 THEN post + 1 ELSE IF odd THEN 1 ELSE 0

Drop(l, p) == [q \in (DOMAIN l) \ {p} |-> l[q]]
Put(l, p, n) == [q \in (DOMAIN l) \cup {p} |-> IF q = p THEN n ELSE l[q]]

\* ----------------------------------------------------------------------- Init
\* Boot: RAM as the loader left it (zero-filled in the model), then
\* heap_init(ArenaStart, ArenaBytes).
Init ==
    LET h == heap_init(ZeroMem, ArenaStart, ArenaBytes) IN
    /\ heap_start = h.heap_start
    /\ heap_end = h.heap_end
    /\ mem = h.mem
    /\ live = [q \in {} |-> 0]
    /\ last = [op |-> "init", a |-> 0, b |-> 0, ret |-> NULL, pre |-> h.mem,
               acc |-> {}, back |-> FALSE, dup |-> FALSE]
    /\ chain = NoChain
    /\ post = 0
    /\ fault = "none"
    /\ inflight = NoFlight
    /\ FileInit

\* -------------------------------------------------------------------- actions
\* p = malloc(n)
DoMalloc(sizes) ==
    \E n \in sizes :
        LET r == malloc(mem, heap_start, heap_end, n) IN
        /\ fault = "none"
        /\ Admit
        /\ post' = Count(n \in WrapSizes)
        /\ mem' = r.mem
        /\ live' = IF r.ret # NULL THEN Put(live, r.ret, n) ELSE live
        /\ last' = Call("malloc", n, 0, r.ret, r.acc, FALSE)
        /\ chain' = IF chain.stage = "mf" /\ chain.n = n
                    THEN [chain EXCEPT !.stage = "mfm"]
                    ELSE IF r.ret # NULL
                         THEN [stage |-> "m", n |-> n, p |-> r.ret, pre |-> mem]
                         ELSE NoChain
        /\ fault' = Stop(r.hang, ~(r.acc \subseteq Addr))
        /\ UNCHANGED <<heap_start, heap_end, inflight, fvars, dvars>>

\* free(p) for a pointer p that malloc/calloc/realloc returned and that has
\* not been released since
DoFree ==
    \E p \in DOMAIN live :
        LET r == free(mem, heap_start, heap_end, p) IN
        /\ fault = "none"
        /\ Admit
        /\ post' = Count(FALSE)
        /\ mem' = r.mem
        /\ live' = Drop(live, p)
        /\ last' = Call("free", p, 0, NULL, r.acc, r.back)
        /\ chain' = IF chain.stage = "m" /\ chain.p = p
                    THEN [chain EXCEPT !.stage = "mf"]
                    ELSE NoChain
        /\ fault' = Stop(FALSE, ~(r.acc \subseteq Addr))
        /\ UNCHANGED <<heap_start, heap_end, inflight, fvars, dvars>>

\* q = realloc(p, n) for a live pointer p, or NULL
DoRealloc(sizes) ==
    \E p \in (DOMAIN live) \cup {NULL}, n \in sizes :
        LET r == realloc(mem, heap_start, heap_end, p, n)
            l1 == IF r.freed THEN Drop(live, p) ELSE live
        IN
        /\ fault = "none"
        /\ Admit
        /\ post' = Count(n \in WrapSizes)
        /\ mem' = r.mem
        /\ live' = IF r.ret # NULL THEN Put(l1, r.ret, n) ELSE l1
        /\ last' = Call("realloc", p, n, r.ret, {}, FALSE)
        /\ chain' = NoChain
        /\ fault' = Stop(r.hang, r.wild)
        /\ UNCHANGED <<heap_start, heap_end, inflight, fvars, dvars>>

\* p = calloc(nmemb, size)
DoCalloc(args) ==
    \E arg \in args :
        LET nmemb == arg[1]
            size == arg[2]
            r == calloc(mem, heap_start, heap_end, nmemb, size) IN
        /\ fault = "none"
        /\ Admit
        /\ post' = Count(U(nmemb * size) \in WrapSizes)
        /\ mem' = r.mem
        /\ live' = IF r.ret # NULL THEN Put(live, r.ret, U(nmemb * size)) ELSE live
        /\ last' = Call("calloc", nmemb, size, r.ret, {}, FALSE)
        /\ chain' = NoChain
        /\ fault' = Stop(r.hang, r.wild)
        /\ UNCHANGED <<heap_start, heap_end, inflight, fvars, dvars>>

\* calloc arguments <<nmemb, size>>: ordinary ones, and products that overflow.
SmallCallocArgs == {<<0, 8>>, <<1, 8>>, <<2, 8>>, <<Word \div 2, 2>>, <<2, Word \div 2 + 4>>}
\* ... and products in the wrap-around range.
CallocArgs == SmallCallocArgs \cup {<<1, Word - 4>>, <<1, Word - 9>>}

\* free(p) for p = NULL or a pointer whose header address p - sizeof(header)
\* lies outside [heap_start, heap_end)
PtrCands == Addr \cup {MemBytes + 4, Word - 4}

DoFreeQuiet ==
    \E p \in PtrCands :
        LET r == free(mem, heap_start, heap_end, p)
            block == U(p - HeaderSize)
        IN
        /\ fault = "none"
        /\ Admit
        /\ p = NULL \/ block < heap_start \/ block >= heap_end
        /\ post' = Count(FALSE)
        /\ mem' = r.mem
        /\ live' = live
        /\ last' = Call("free", p, 0, NULL, r.acc, r.back)
        /\ chain' = NoChain
        /\ fault' = Stop(FALSE, ~(r.acc \subseteq Addr))
        /\ UNCHANGED <<heap_start, heap_end, inflight, fvars, dvars>>

\* free(p) for a non-null p outside the arena: p < heap_start or p >= heap_end
DoFreeOutside ==
    \E p \in PtrCands :
        LET r == free(mem, heap_start, heap_end, p) IN
        /\ fault = "none"
        /\ Admit
        /\ p # NULL /\ (p < heap_start \/ p >= heap_end)
        /\ post' = Count(r.mem # mem)
        /\ mem' = r.mem
        /\ live' = live
        /\ last' = Call("free", p, 0, NULL, r.acc, r.back)
        /\ chain' = NoChain
        /\ fault' = Stop(FALSE, ~(r.acc \subseteq Addr))
        /\ UNCHANGED <<heap_start, heap_end, inflight, fvars, dvars>>

\* free(p) for an address inside the arena that is not a live allocation: a
\* pointer released before, or one that no allocation returned
DoFreeErr ==
    \E p \in {a \in Addr : heap_start <= a /\ a < heap_end} \ DOMAIN live :
        LET r == free(mem, heap_start, heap_end, p) IN
        /\ fault = "none"
        /\ Admit
        /\ post' = Count(TRUE)
        /\ mem' = r.mem
        /\ live' = live
        /\ last' = Call("badfree", p, 0, NULL, r.acc, r.back)
        /\ chain' = NoChain
        /\ fault' = Stop(FALSE, ~(r.acc \subseteq Addr))
        /\ UNCHANGED <<heap_start, heap_end, inflight, fvars, dvars>>

\* The caller fills the bytes it asked for, [p, p + n) of a live allocation,
\* with the word v (the cells that lie wholly inside the range).
StoreVals == {9, 16}
Filled(m, p, n, v) ==
    [a \in Addr |-> IF p <= a /\ a + 4 <= p + n THEN v ELSE m[a]]

DoStore ==
    \E p \in DOMAIN live, v \in StoreVals :
        /\ fault = "none"
        /\ Admit
        /\ Filled(mem, p, live[p], v) # mem
        /\ post' = Count(FALSE)
        /\ mem' = Filled(mem, p, live[p], v)
        /\ live' = live
        /\ last' = Call("store", p, v, NULL, {}, FALSE)
        /\ chain' = NoChain
        /\ fault' = "none"
        /\ UNCHANGED <<heap_start, heap_end, inflight, fvars, dvars>>

\* ------------------------------------------------------------- specifications
\* allocate / release / reallocate on live pointers, any request size
NextARR == DoMalloc(ReqSizes) \/ DoFree \/ DoRealloc(ReqSizes)
SpecARR == Init /\ [][NextARR]_vars

\* ... and zero-fill allocate
Next == DoMalloc(ReqSizes) \/ DoFree \/ DoRealloc(ReqSizes) \/ DoCalloc(CallocArgs)
Spec == Init /\ [][Next]_vars

\* The same calls with every request below the wrap-around range
NextSane ==
    DoMalloc(SmallSizes) \/ DoFree \/ DoRealloc(SmallSizes) \/ DoCalloc(SmallCallocArgs) \/ DoStore
SpecSane == Init /\ [][NextSane]_vars

\* Valid calls, and releases of NULL and of pointers whose header is out of range
NextQuiet == DoMalloc(ReqSizes) \/ DoFree \/ DoRealloc(ReqSizes) \/ DoFreeQuiet
SpecQuiet == Init /\ [][NextQuiet]_vars

\* Valid calls with ordinary sizes, caller stores, and releases of pointers
\* outside the arena
NextOut == DoMalloc(SmallSizes) \/ DoFree \/ DoStore \/ DoFreeOutside
SpecOut == Init /\ [][NextOut]_vars

\* Valid calls with ordinary sizes, and erroneous releases inside the arena
NextErr == DoMalloc(SmallSizes) \/ DoFree \/ DoFreeErr
SpecErr == Init /\ [][NextErr]_vars

\* An arena one unit larger, in which a free block too small for a request
\* can lie below a free block that holds it: allocate and release, any size
WideBytes == ArenaBytes + 8
InitWide ==
    LET h == heap_init(ZeroMem, ArenaStart, WideBytes) IN
    /\ heap_start = h.heap_start
    /\ heap_end = h.heap_end
    /\ mem = h.mem
    /\ live = [q \in {} |-> 0]
    /\ last = [op |-> "init", a |-> 0, b |-> 0, ret |-> NULL, pre |-> h.mem,
               acc |-> {}, back |-> FALSE, dup |-> FALSE]
    /\ chain = NoChain
    /\ post = 0
    /\ fault = "none"
    /\ inflight = NoFlight
    /\ FileInit
NextFit == DoMalloc(ReqSizes) \/ DoFree
SpecFit == InitWide /\ [][NextFit]_vars

\* ---------------------------------------------------------------- interrupts
\* The main context's malloc(n) up to the test of line 65 that chooses a
\* block; nothing is written yet.
MainSelect(sizes) ==
    \E n \in sizes :
        LET block == IF n = 0 \/ heap_start = NULL THEN NoFit
                     ELSE FirstFit(mem, heap_end, heap_start, align_size(n), Cardinality(Addr))
        IN
        /\ fault = "none"
        /\ Admit
        /\ inflight.stage # "selected"
        /\ block \notin {NoFit, Hang}
        /\ inflight' = [stage |-> "selected", n |-> n, needed |-> align_size(n),
                        block |-> block, block_size |-> SizeOf(Rd(mem, block)),
                        irq |-> FALSE, in |-> 0, iret |-> NULL]
        /\ UNCHANGED <<heap_start, heap_end, mem, live, last, chain, post, fault, fvars, dvars>>

\* An interrupt handler calls malloc(n) at that point and returns.
IrqMalloc(sizes) ==
    \E n \in sizes :
        LET r == malloc(mem, heap_start, heap_end, n) IN
        /\ fault = "none"
        /\ inflight.stage = "selected"
        /\ ~inflight.irq
        /\ post' = Count(TRUE)
        /\ mem' = r.mem
        /\ live' = IF r.ret # NULL THEN Put(live, r.ret, n) ELSE live
        /\ last' = Call("malloc", n, 0, r.ret, r.acc, FALSE)
        /\ chain' = NoChain
        /\ fault' = Stop(r.hang, ~(r.acc \subseteq Addr))
        /\ inflight' = [inflight EXCEPT !.irq = TRUE, !.in = n, !.iret = r.ret]
        /\ UNCHANGED <<heap_start, heap_end, fvars, dvars>>

\* The main context's malloc goes on from the block it chose and returns.
MainFinish ==
    LET r == Chosen(mem, inflight.block, inflight.block_size, inflight.needed, heap_end) IN
    /\ fault = "none"
    /\ inflight.stage = "selected"
    /\ post' = Count(inflight.n \in WrapSizes)
    /\ mem' = r.mem
    /\ live' = IF r.ret # NULL THEN Put(live, r.ret, inflight.n) ELSE live
    /\ last' = Call("malloc", inflight.n, 0, r.ret, r.acc, FALSE)
    /\ chain' = NoChain
    /\ fault' = Stop(r.hang, ~(r.acc \subseteq Addr))
    /\ inflight' = [inflight EXCEPT !.stage = "done"]
    /\ UNCHANGED <<heap_start, heap_end, fvars, dvars>>

\* free(p) of a live pointer between two calls of the main context
FreeBetween == inflight.stage # "selected" /\ DoFree

\* The main context allocates and releases; an interrupt handler may allocate
\* while a malloc of the main context is between its scan and its writes.
NextIrq == MainSelect(ReqSizes) \/ IrqMalloc(ReqSizes) \/ MainFinish \/ FreeBetween
SpecIrq == InitWide /\ [][NextIrq]_vars

\* ----------------------------------------------------------------- heap_init
\* Power-on: the allocator's statics are NULL and RAM holds zeros or stale
\* data; boot code then calls heap_init(a, s) once, before any other call.
DirtyMem == [a \in Addr |-> 9]
InitBoot ==
    /\ heap_start = NULL
    /\ heap_end = NULL
    /\ mem \in {ZeroMem, DirtyMem}
    /\ live = [q \in {} |-> 0]
    /\ last = [op |-> "boot", a |-> 0, b |-> 0, ret |-> NULL, pre |-> ZeroMem,
               acc |-> {}, back |-> FALSE, dup |-> FALSE]
    /\ chain = NoChain
    /\ post = 0
    /\ fault = "none"
    /\ inflight = NoFlight
    /\ FileInit

\* Regions handed to heap_init: aligned and misaligned starts, sizes from 0
\* to the whole arena, and a start within 8 of the top of the address range.
InitStarts == {0, ArenaStart, ArenaStart + 1, ArenaStart + 4, Word - 4}
InitSizes == {0, 3, 7, 8, 17, 33, ArenaBytes}

DoInit ==
    \E a \in InitStarts, s \in InitSizes :
        LET h == heap_init(mem, a, s) IN
        /\ last.op = "boot"
        /\ fault = "none"
        /\ heap_start' = h.heap_start
        /\ heap_end' = h.heap_end
        /\ mem' = h.mem
        /\ live' = live
        /\ last' = Call("heap_init", a, s, NULL, {h.heap_start, h.heap_start + 4}, FALSE)
        /\ chain' = NoChain
        /\ post' = 0
        /\ fault' = Stop(FALSE, ~({h.heap_start, h.heap_start + 4} \subseteq Addr))
        /\ UNCHANGED <<inflight, fvars, dvars>>

\* Boot, then allocate and release on the arena heap_init left.
NextBoot == DoInit \/ DoMalloc(SmallSizes) \/ DoFree
SpecBoot == InitBoot /\ [][NextBoot]_vars

\* ------------------------------------------------------------------ file layer
\* A pathname is the sequence of its components between '/' characters.
\* strcmp(pathname, name) == 0, or the text after the last '/' is name.
NameIs(pathname, name) ==
    \/ pathname = <<name>>
    \/ (Len(pathname) > 1 /\ pathname[Len(pathname)] = name)

filename_to_slot(pathname) ==
    IF NameIs(pathname, "model.bin") THEN 0
    ELSE IF NameIs(pathname, "tokenizer.bin") THEN 1
    ELSE -1

\* Find a free file slot: the lowest unused entry, zeroed and marked used.
FreeSlotsShort(used) == {i \in Handles : i + 1 < MAX_OPEN_FILES /\ used[i] = 0}
FreeSlots(used) == {i \in Handles : used[i] = 0}
LowestEntry(used) == CHOOSE i \in Handles : \A j \in Handles : i <= j
FirstFree(used) == CHOOSE i \in FreeSlots(used) : \A j \in FreeSlots(used) : i <= j
alloc_file(table, used) ==
    IF FreeSlots(used) = {}
    THEN [f |-> NoFile, table |-> table, used |-> used]
    ELSE [f |-> FirstFree(used),
          table |-> [table EXCEPT ![FirstFree(used)] = ZeroFile],
          used |-> [used EXCEPT ![FirstFree(used)] = 1]]

KeepFile(used, f) == used
\* Free a file slot.
free_file(used, f) == IF f \in Handles THEN [used EXCEPT ![f] = 0] ELSE used

\* The bridge's answer to a size query: Fail (the rc is -1 and *size is set
\* to 0, as the firmware's own dataslot_get_size does), or the slot's size.
Fail == -1
dataslot_get_size(slot_id, reply) ==
    IF reply = Fail THEN [rc |-> -1, size |-> 0] ELSE [rc |-> 0, size |-> reply]
\* The bridge's answer to a read: rc 0, or -1 as the firmware's own
\* dataslot_read gives.
dataslot_read(reply) == IF reply = Fail THEN -1 ELSE 0

\* An fopen that hands out the entry with a buffer attached (at address 8).
OpenedBuffered(a, slot_id, g) ==
    IF g.rc # 0
    THEN [ret |-> NoFile,
          table |-> [a.table EXCEPT ![a.f] = [@ EXCEPT !.slot_id = slot_id, !.offset = 0,
                                                       !.flags = 0, !.size = g.size]],
          used |-> free_file(a.used, a.f)]
    ELSE [ret |-> a.f,
          table |-> [a.table EXCEPT ![a.f] = [@ EXCEPT !.slot_id = slot_id, !.offset = 0,
                                                       !.flags = 0, !.size = g.size,
                                                       !.data = HeaderSize]],
          used |-> a.used]

\* fopen, from the entry alloc_file gave: the fields set, then the size query.
Opened(a, slot_id, g) ==
    IF g.rc # 0
    THEN [ret |-> NoFile,
          table |-> [a.table EXCEPT ![a.f] = [@ EXCEPT !.slot_id = slot_id, !.offset = 0,
                                                       !.flags = 0, !.size = g.size]],
          used |-> free_file(a.used, a.f)]
    ELSE [ret |-> a.f,
          table |-> [a.table EXCEPT ![a.f] = [@ EXCEPT !.slot_id = slot_id, !.offset = 0,
                                                       !.flags = 0, !.size = g.size,
                                                       !.data = NULL]],
          used |-> a.used]

Allocated(a, slot_id, reply) ==
    IF a.f = NoFile
    THEN [ret |-> NoFile, table |-> a.table, used |-> a.used]
    ELSE Opened(a, slot_id, dataslot_get_size(slot_id, reply))

fopen(table, used, pathname, reply) ==
    IF filename_to_slot(pathname) < 0
    THEN [ret |-> NoFile, table |-> table, used |-> used]
    ELSE Allocated(alloc_file(table, used), filename_to_slot(pathname), reply)

fclose(used, stream) ==
    IF stream = NoFile THEN [ret |-> -1, used |-> used]
    ELSE [ret |-> 0, used |-> free_file(used, stream)]

\* A transfer that moves the cursor whether or not the bridge read succeeded.
TransferCounting(table, stream, nmemb, total_bytes, reply) ==
    IF total_bytes = 0
    THEN [ret |-> 0, table |-> table, rd |-> <<>>]
    ELSE [ret |-> IF table[stream].data # NULL \/ dataslot_read(reply) = 0 THEN nmemb ELSE 0,
          table |-> [table EXCEPT ![stream].offset = U(@ + total_bytes)],
          rd |-> IF table[stream].data # NULL THEN <<>>
                 ELSE <<[slot |-> table[stream].slot_id, offset |-> table[stream].offset,
                         length |-> total_bytes]>>]

\* fread after the early returns; rd is the bridge read issued, if any.
\* total_bytes and nmemb are the C variables after the truncation.
Transfer(table, stream, nmemb, total_bytes, reply) ==
    IF total_bytes = 0
    THEN [ret |-> 0, table |-> table, rd |-> <<>>]
    ELSE IF table[stream].data # NULL
    THEN \* copied from the in-memory buffer
         [ret |-> nmemb,
          table |-> [table EXCEPT ![stream].offset = U(@ + total_bytes)],
          rd |-> <<>>]
    ELSE IF dataslot_read(reply) # 0
    THEN [ret |-> 0, table |-> table,
          rd |-> <<[slot |-> table[stream].slot_id, offset |-> table[stream].offset,
                    length |-> total_bytes]>>]
    ELSE [ret |-> nmemb,
          table |-> [table EXCEPT ![stream].offset = U(@ + total_bytes)],
          rd |-> <<[slot |-> table[stream].slot_id, offset |-> table[stream].offset,
                    length |-> total_bytes]>>]

\* A read that does not look at the bytes that remain.
Untruncated(table, stream, size, nmemb, total_bytes, available, reply) ==
    Transfer(table, stream, nmemb, total_bytes, reply)

\* The truncation to the bytes that remain, rounded down to whole elements.
Truncated(table, stream, size, nmemb, total_bytes, available, reply) ==
    IF total_bytes > available
    THEN Transfer(table, stream, available \div size, U((available \div size) * size), reply)
    ELSE Transfer(table, stream, nmemb, total_bytes, reply)

\* ptr is the caller's buffer: NULL or not (its contents are the bridge's).
fread(table, ptr, size, nmemb, stream, reply) ==
    IF stream = NoFile \/ ptr = NULL \/ size = 0 \/ nmemb = 0
    THEN [ret |-> 0, table |-> table, rd |-> <<>>]
    ELSE Truncated(table, stream, size, nmemb, U(size * nmemb),
                   U(table[stream].size - table[stream].offset), reply)

\* A long of the target: the word read as a two's complement number.
Long(x) == IF U(x) >= Word \div 2 THEN U(x) - Word ELSE U(x)
LONG_MAX == (Word \div 2) - 1
LONG_MIN == -(Word \div 2)

RejectedAtSize(new_offset, size) == new_offset < 0 \/ U(new_offset) >= size
\* new_offset < 0 || (size_t)new_offset > stream->size
Rejected(new_offset, size) == new_offset < 0 \/ U(new_offset) > size

Seek(table, stream, new_offset) ==
    IF Rejected(new_offset, table[stream].size)
    THEN [ret |-> -1, table |-> table]
    ELSE [ret |-> 0, table |-> [table EXCEPT ![stream].offset = U(new_offset)]]

fseek(table, stream, offset, whence) ==
    IF stream = NoFile THEN [ret |-> -1, table |-> table]
    ELSE IF whence = "SEEK_SET" THEN Seek(table, stream, offset)
    ELSE IF whence = "SEEK_CUR"
    THEN Seek(table, stream, Long(Long(table[stream].offset) + offset))
    ELSE IF whence = "SEEK_END"
    THEN Seek(table, stream, Long(Long(table[stream].size) + offset))
    ELSE [ret |-> -1, table |-> table]

RewindAll(table, stream) ==
    IF stream # NoFile THEN [i \in Handles |-> [table[i] EXCEPT !.offset = 0]] ELSE table
rewind(table, stream) ==
    IF stream # NoFile THEN [table EXCEPT ![stream].offset = 0] ELSE table

\* -------------------------------------------------------------- descriptors
\* Use negative slot IDs as file descriptors.
FD_TO_SLOT(fd) == (-fd) - 1
SLOT_TO_FD(slot) == (-slot) - 1

\* slot_id < 0 || slot_id >= 16 || !fd_used[slot_id]
NotOpen(used, slot_id) == slot_id < 0 \/ slot_id >= FD_SLOTS \/ used[slot_id] = 0

\* The descriptor table as one value d = [offset, size, used].
\* open from the size query on: the bridge stores the size, then, if it
\* succeeded, the cursor is reset and the entry flagged.
Sized(d, slot_id, g) ==
    IF g.rc # 0
    THEN [ret |-> -1, d |-> [d EXCEPT !.size[slot_id] = g.size]]
    ELSE [ret |-> SLOT_TO_FD(slot_id),
          d |-> [d EXCEPT !.size[slot_id] = g.size, !.offset[slot_id] = 0,
                          !.used[slot_id] = 1]]

\* An open that does not test the used flag.
OpenAgain(d, pathname, reply) ==
    IF filename_to_slot(pathname) < 0 \/ filename_to_slot(pathname) >= FD_SLOTS
    THEN [ret |-> -1, d |-> d]
    ELSE Sized(d, filename_to_slot(pathname),
               dataslot_get_size(filename_to_slot(pathname), reply))

open(d, pathname, reply) ==
    IF filename_to_slot(pathname) < 0 \/ filename_to_slot(pathname) >= FD_SLOTS
    THEN [ret |-> -1, d |-> d]
    ELSE IF d.used[filename_to_slot(pathname)] # 0
    THEN [ret |-> -1, d |-> d]
    ELSE Sized(d, filename_to_slot(pathname),
               dataslot_get_size(filename_to_slot(pathname), reply))

close(d, fd) ==
    IF NotOpen(d.used, FD_TO_SLOT(fd))
    THEN [ret |-> -1, d |-> d]
    ELSE [ret |-> 0, d |-> [d EXCEPT !.used[FD_TO_SLOT(fd)] = 0]]

\* read from the count == 0 test on; count is the C variable after the
\* truncation, rd the bridge read issued.
Fetched(d, slot_id, count, reply) ==
    IF count = 0 THEN [ret |-> 0, d |-> d, rd |-> <<>>]
    ELSE IF dataslot_read(reply) # 0
    THEN [ret |-> -1, d |-> d,
          rd |-> <<[slot |-> slot_id, offset |-> d.offset[slot_id], length |-> count]>>]
    ELSE [ret |-> Long(count),
          d |-> [d EXCEPT !.offset[slot_id] = U(@ + count)],
          rd |-> <<[slot |-> slot_id, offset |-> d.offset[slot_id], length |-> count]>>]

\* count > available ? available : count
Capped(count, available) == IF count > available THEN available ELSE count

read(d, fd, count, reply) ==
    IF NotOpen(d.used, FD_TO_SLOT(fd))
    THEN [ret |-> -1, d |-> d, rd |-> <<>>]
    ELSE Fetched(d, FD_TO_SLOT(fd),
                 Capped(count, U(d.size[FD_TO_SLOT(fd)] - d.offset[FD_TO_SLOT(fd)])),
                 reply)

\* lseek from the new_offset < 0 test on; off_t is a signed word.
Placed(d, slot_id, new_offset) ==
    IF new_offset < 0
    THEN [ret |-> -1, d |-> d]
    ELSE [ret |-> new_offset, d |-> [d EXCEPT !.offset[slot_id] = U(new_offset)]]

lseek(d, fd, offset, whence) ==
    IF NotOpen(d.used, FD_TO_SLOT(fd)) THEN [ret |-> -1, d |-> d]
    ELSE IF whence = "SEEK_SET" THEN Placed(d, FD_TO_SLOT(fd), offset)
    ELSE IF whence = "SEEK_CUR"
    THEN Placed(d, FD_TO_SLOT(fd), Long(d.offset[FD_TO_SLOT(fd)] + offset))
    ELSE IF whence = "SEEK_END"
    THEN Placed(d, FD_TO_SLOT(fd), Long(d.size[FD_TO_SLOT(fd)] + offset))
    ELSE [ret |-> -1, d |-> d]

\* ------------------------------------------------------------------- fwrite
\* Write not supported for data slots.
fwrite(table, ptr, size, nmemb, stream) == [ret |-> 0, table |-> table]

\* -------------------------------------------------------------- mmap, munmap
\* The failure value of mmap: the all-ones pointer, which is neither NULL nor
\* the address of a payload.
MAP_FAILED == Word - 1

\* mmap from the bridge read on, for the buffer r.ret malloc returned: rd is
\* the bridge read issued; on success the bridge has filled the `length`
\* bytes at the buffer (with the word v), on failure the buffer is released.
\* wild: a cell outside the modelled RAM was accessed, or the bridge wrote
\* past the end of the block.
Loaded(r, hs, he, slot_id, offset, length, reply, v) ==
    IF dataslot_read(reply) # 0
    THEN [ret |-> MAP_FAILED, mem |-> free(r.mem, hs, he, r.ret).mem, hang |-> FALSE,
          wild |-> ~(r.acc \subseteq Addr)
                   \/ ~(free(r.mem, hs, he, r.ret).acc \subseteq Addr),
          rd |-> <<[slot |-> slot_id, offset |-> offset, length |-> length]>>,
          took |-> FALSE]
    ELSE [ret |-> r.ret, mem |-> Filled(r.mem, r.ret, length, v), hang |-> FALSE,
          wild |-> ~(r.acc \subseteq Addr)
                   \/ length > SizeOf(Rd(r.mem, U(r.ret - HeaderSize))) - HeaderSize,
          rd |-> <<[slot |-> slot_id, offset |-> offset, length |-> length]>>,
          took |-> TRUE]

\* Allocate memory for the mapped region, then load data from the data slot.
Mapped(r, hs, he, slot_id, offset, length, reply, v) ==
    IF r.ret = NULL
    THEN [ret |-> MAP_FAILED, mem |-> r.mem, hang |-> r.hang, wild |-> FALSE,
          rd |-> <<>>, took |-> FALSE]
    ELSE Loaded(r, hs, he, slot_id, offset, length, reply, v)

\* took: the call returned a buffer.
mmap(m, hs, he, used, length, fd, offset, reply, v) ==
    IF NotOpen(used, FD_TO_SLOT(fd))
    THEN [ret |-> MAP_FAILED, mem |-> m, hang |-> FALSE, wild |-> FALSE,
          rd |-> <<>>, took |-> FALSE]
    ELSE Mapped(malloc(m, hs, he, length), hs, he, FD_TO_SLOT(fd), offset, length,
                reply, v)

\* An unmap that leaves the buffer allocated.
UnmapKept(m, hs, he, addr) == [ret |-> 0, mem |-> m, acc |-> {}, back |-> FALSE]

munmap(m, hs, he, addr) ==
    IF addr # NULL /\ addr # MAP_FAILED
    THEN [ret |-> 0, mem |-> free(m, hs, he, addr).mem,
          acc |-> free(m, hs, he, addr).acc, back |-> free(m, hs, he, addr).back]
    ELSE [ret |-> 0, mem |-> m, acc |-> {}, back |-> FALSE]

\* ------------------------------------------------------------ file actions
\* Names: the two known ones, bare and behind a directory, and unknown ones.
Paths == {<<"model.bin">>, <<"sd", "tokenizer.bin">>, <<"unknown.bin">>, <<"model.bin", "x">>}
\* The bridge's answers to a size query and to a read.
SizeReplies == {Fail, MaxSlotSize}
ReadReplies == {Fail, 0}
\* fread arguments <<ptr, size, nmemb>>: a NULL buffer, zero size or count,
\* ordinary requests, and two whose product size * nmemb overflows the word.
ReadCalls ==
    {<<NULL, 1, 1>>, <<1, 0, 1>>, <<1, 1, 0>>,
     <<1, 1, 1>>, <<1, 1, MaxSlotSize + 1>>, <<1, 2, 1>>, <<1, 2, 2>>,
     <<1, 2, Word \div 2>>, <<1, (Word \div 2) + 1, 2>>}
SeekOffsets == {LONG_MIN, -1, 0, 1, 2, LONG_MAX}
Whences == {"SEEK_SET", "SEEK_CUR", "SEEK_END", "other"}

\* The record of the last file-layer call: the handle and arguments (w: the
\* seek mode, or whether the read buffer is NULL), the bridge's answer ok,
\* the result, the bridge reads issued, and the FILE of the handle (for fopen,
\* of the entry it returns) before the call.
FileCall(op, h, a, b, w, ok, ret, rd) ==
    [op |-> op, h |-> h, a |-> a, b |-> b, w |-> w, ok |-> ok, ret |-> ret, rd |-> rd,
     pre |-> IF h \in Handles THEN file_table[h]
             ELSE IF op = "fopen" /\ ret \in Handles THEN file_table[ret]
             ELSE ZeroFile]

\* f = fopen(pathname, mode) while fewer than limit handles are held
DoFopen(limit) ==
    \E pathname \in Paths, reply \in SizeReplies :
        LET r == fopen(file_table, file_table_used, pathname, reply) IN
        /\ Cardinality(held) < limit
        /\ file_table' = r.table
        /\ file_table_used' = r.used
        /\ held' = IF r.ret # NoFile THEN held \cup {r.ret} ELSE held
        /\ flast' = FileCall("fopen", NoFile, filename_to_slot(pathname), 0, "",
                             reply, r.ret, <<>>)
        /\ dlast' = NoDesc
        /\ UNCHANGED <<avars, dtab>>

\* fclose(f) for a held handle or NULL
DoFclose ==
    \E stream \in held \cup {NoFile} :
        LET r == fclose(file_table_used, stream) IN
        /\ file_table_used' = r.used
        /\ held' = held \ {stream}
        /\ flast' = FileCall("fclose", stream, 0, 0, "", 0, r.ret, <<>>)
        /\ dlast' = NoDesc
        /\ UNCHANGED <<file_table, avars, dtab>>

\* n = fread(ptr, size, nmemb, f) for a held handle or NULL
DoFread(calls) ==
    \E stream \in held \cup {NoFile}, c \in calls, reply \in ReadReplies :
        LET r == fread(file_table, c[1], c[2], c[3], stream, reply) IN
        /\ file_table' = r.table
        /\ flast' = FileCall("fread", stream, c[2], c[3], IF c[1] = NULL THEN "null" ELSE "buf",
                             reply, r.ret, r.rd)
        /\ dlast' = NoDesc
        /\ UNCHANGED <<file_table_used, held, avars, dtab>>

\* fseek(f, offset, whence) for a held handle or NULL
DoFseek(offsets, whences) ==
    \E stream \in held \cup {NoFile}, offset \in offsets, whence \in whences :
        LET r == fseek(file_table, stream, offset, whence) IN
        /\ file_table' = r.table
        /\ flast' = FileCall("fseek", stream, offset, 0, whence, 0, r.ret, <<>>)
        /\ dlast' = NoDesc
        /\ UNCHANGED <<file_table_used, held, avars, dtab>>

\* rewind(f) for a held handle or NULL
DoRewind ==
    \E stream \in held \cup {NoFile} :
        /\ file_table' = rewind(file_table, stream)
        /\ flast' = FileCall("rewind", stream, 0, 0, "", 0, 0, <<>>)
        /\ dlast' = NoDesc
        /\ UNCHANGED <<file_table_used, held, avars, dtab>>

\* The stream calls, with at most MaxHeld handles held at once
NextFile ==
    \/ DoFopen(MaxHeld)
    \/ DoFclose
    \/ DoFread(ReadCalls)
    \/ DoFseek(SeekOffsets, Whences)
    \/ DoRewind
SpecFile == Init /\ [][NextFile]_vars

\* The handle pool: any number of opens and closes, with reads of a whole
\* slot, seeks to its end and rewinds that leave cursors behind
NextPool ==
    \/ DoFopen(MAX_OPEN_FILES + 1)
    \/ DoFclose
    \/ DoFread({<<1, MaxSlotSize, 1>>})
    \/ DoFseek({0}, {"SEEK_END"})
    \/ DoRewind
SpecPool == Init /\ [][NextPool]_vars

\* ------------------------------------------------------- descriptor actions
\* The descriptor table as one value, and back.
D == [offset |-> fd_offset, size |-> fd_size, used |-> fd_used]
SetD(d) == fd_offset' = d.offset /\ fd_size' = d.size /\ fd_used' = d.used

\* Descriptors passed by callers: those of slots 0, 1 and FD_SLOTS - 1, and
\* two that are no descriptor of a slot of the table.
Fds == {-1, -2, -FD_SLOTS, (-FD_SLOTS) - 1, 0}
\* One known name and one unknown name.
DescPaths == {<<"model.bin">>, <<"unknown.bin">>}
Counts == {0, 1, MaxSlotSize + 1, Word - 1}
DescOffsets == {LONG_MIN, -1, 0, 1, MaxSlotSize + 1, LONG_MAX}

\* The record of the last descriptor call: the descriptor and arguments (w:
\* the seek mode), the bridge's answer ok, the result, the bridge reads
\* issued, and the descriptor's table entry before the call.
DescCall(op, fd, a, w, ok, ret, rd) ==
    [op |-> op, fd |-> fd, a |-> a, w |-> w, ok |-> ok, ret |-> ret, rd |-> rd,
     pre |-> IF FD_TO_SLOT(fd) \in DescSlots
             THEN [offset |-> fd_offset[FD_TO_SLOT(fd)], size |-> fd_size[FD_TO_SLOT(fd)],
                   used |-> fd_used[FD_TO_SLOT(fd)]]
             ELSE [offset |-> 0, size |-> 0, used |-> 0]]

\* The cursors stay within the bound.
CursorsCapped(d) == \A i \in DescSlots : d.offset[i] <= MaxCursor

\* fd = open(pathname, flags); the record names the descriptor of the
\* pathname's slot (0, which is no descriptor, for an unknown name)
DoOpen(paths) ==
    \E pathname \in paths, reply \in SizeReplies :
        LET r == open(D, pathname, reply) IN
        /\ SetD(r.d)
        /\ dlast' = DescCall("open",
                             IF filename_to_slot(pathname) < 0 THEN 0
                             ELSE SLOT_TO_FD(filename_to_slot(pathname)),
                             0, "", reply, r.ret, <<>>)
        /\ flast' = NoCall
        /\ UNCHANGED <<avars, file_table, file_table_used, held>>

\* close(fd)
DoClose(fds) ==
    \E fd \in fds :
        LET r == close(D, fd) IN
        /\ SetD(r.d)
        /\ dlast' = DescCall("close", fd, 0, "", 0, r.ret, <<>>)
        /\ flast' = NoCall
        /\ UNCHANGED <<avars, file_table, file_table_used, held>>

\* n = read(fd, buf, count)
DoRead(fds, counts) ==
    \E fd \in fds, count \in counts, reply \in ReadReplies :
        LET r == read(D, fd, count, reply) IN
        /\ CursorsCapped(r.d)
        /\ SetD(r.d)
        /\ dlast' = DescCall("read", fd, count, "", reply, r.ret, r.rd)
        /\ flast' = NoCall
        /\ UNCHANGED <<avars, file_table, file_table_used, held>>

\* lseek(fd, offset, whence)
DoLseek(fds, offsets, whences) ==
    \E fd \in fds, offset \in offsets, whence \in whences :
        LET r == lseek(D, fd, offset, whence) IN
        /\ CursorsCapped(r.d)
        /\ SetD(r.d)
        /\ dlast' = DescCall("lseek", fd, offset, whence, 0, r.ret, <<>>)
        /\ flast' = NoCall
        /\ UNCHANGED <<avars, file_table, file_table_used, held>>

\* The descriptor calls, on any descriptor value
NextDesc ==
    \/ DoOpen(DescPaths)
    \/ DoClose(Fds)
    \/ DoRead(Fds, Counts)
    \/ DoLseek(Fds, DescOffsets, Whences)
SpecDesc == Init /\ [][NextDesc]_vars

\* ------------------------------------------------------------ closed handles
\* The handles a caller still has after fclose: an entry that is not held and
\* whose size is not 0 was returned by a successful fopen and closed since
\* (a failed fopen leaves size 0 in the entry it took).
ClosedHandles == {h \in Handles \ held : file_table[h].size # 0}

\* n = fread(ptr, size, nmemb, f) for a handle f that was closed
DoFreadClosed(calls) ==
    \E stream \in ClosedHandles, c \in calls, reply \in ReadReplies :
        LET r == fread(file_table, c[1], c[2], c[3], stream, reply) IN
        /\ file_table' = r.table
        /\ flast' = FileCall("fread", stream, c[2], c[3], IF c[1] = NULL THEN "null" ELSE "buf",
                             reply, r.ret, r.rd)
        /\ dlast' = NoDesc
        /\ UNCHANGED <<file_table_used, held, avars, dtab>>

\* fseek(f, offset, whence) for a handle f that was closed
DoFseekClosed(offsets, whences) ==
    \E stream \in ClosedHandles, offset \in offsets, whence \in whences :
        LET r == fseek(file_table, stream, offset, whence) IN
        /\ file_table' = r.table
        /\ flast' = FileCall("fseek", stream, offset, 0, whence, 0, r.ret, <<>>)
        /\ dlast' = NoDesc
        /\ UNCHANGED <<file_table_used, held, avars, dtab>>

\* n = fwrite(ptr, size, nmemb, f) for any handle: held, closed or NULL
DoFwrite(calls) ==
    \E stream \in held \cup ClosedHandles \cup {NoFile}, c \in calls :
        LET r == fwrite(file_table, c[1], c[2], c[3], stream) IN
        /\ file_table' = r.table
        /\ flast' = FileCall("fwrite", stream, c[2], c[3], IF c[1] = NULL THEN "null" ELSE "buf",
                             0, r.ret, <<>>)
        /\ dlast' = NoDesc
        /\ UNCHANGED <<file_table_used, held, avars, dtab>>

\* -------------------------------------------------------------- map actions
\* p = mmap(NULL, length, prot, flags, fd, offset); a buffer returned is a
\* live allocation of `length` bytes, which the bridge has filled with one
\* of the words vals
DoMmap(fds, lengths, offsets, vals) ==
    \E fd \in fds, length \in lengths, offset \in offsets,
       reply \in ReadReplies, v \in vals :
        LET r == mmap(mem, heap_start, heap_end, fd_used, length, fd, offset, reply, v) IN
        /\ fault = "none"
        /\ Admit
        /\ post' = Count(length \in WrapSizes)
        /\ mem' = r.mem
        /\ live' = IF r.took THEN Put(live, r.ret, length) ELSE live
        /\ last' = Call("mmap", length, fd, r.ret, {}, FALSE)
        /\ chain' = NoChain
        /\ fault' = Stop(r.hang, r.wild)
        /\ dlast' = DescCall("mmap", fd, length, "", reply, r.ret, r.rd)
        /\ flast' = NoCall
        /\ UNCHANGED <<heap_start, heap_end, inflight, file_table, file_table_used, held, dtab>>

\* munmap(p, length) for a buffer p that mmap returned and that has not been
\* unmapped since, or NULL, or MAP_FAILED
DoMunmap ==
    \E addr \in (DOMAIN live) \cup {NULL, MAP_FAILED} :
        LET r == munmap(mem, heap_start, heap_end, addr) IN
        /\ fault = "none"
        /\ Admit
        /\ post' = Count(FALSE)
        /\ mem' = r.mem
        /\ live' = IF addr \in DOMAIN live THEN Drop(live, addr) ELSE live
        /\ last' = Call("munmap", addr, 0, NULL, r.acc, r.back)
        /\ chain' = NoChain
        /\ fault' = Stop(FALSE, ~(r.acc \subseteq Addr))
        /\ dlast' = DescCall("munmap", 0, addr, "", 0, r.ret, <<>>)
        /\ flast' = NoCall
        /\ UNCHANGED <<heap_start, heap_end, inflight, file_table, file_table_used, held, dtab>>

\* The descriptor of slot 0, which the calls open and close, the descriptor
\* of slot 1, which is never opened, and one of no slot of the table.
ClosedFds == {-1, -2, (-FD_SLOTS) - 1}
\* Calls on handles that were closed and on descriptors that are not open,
\* among opens and closes of both kinds; a map asks for the whole arena
NextClosed ==
    \/ DoFopen(1)
    \/ DoFclose
    \/ DoFreadClosed({<<1, 1, 1>>})
    \/ DoFseekClosed({0}, {"SEEK_SET", "other"})
    \/ DoFwrite({<<1, 1, 1>>})
    \/ DoOpen({<<"model.bin">>})
    \/ DoClose(ClosedFds)
    \/ DoRead(ClosedFds, {1})
    \/ DoLseek(ClosedFds, {1}, {"SEEK_SET"})
    \/ DoMmap(ClosedFds, {ArenaBytes - HeaderSize}, {0}, {9})
SpecClosed == Init /\ [][NextClosed]_vars

\* One descriptor opened, mapped any number of times and the buffers unmapped
\* in any order; every length asked for fits the arena or is refused
NextMap ==
    \/ DoOpen({<<"model.bin">>})
    \/ DoMmap({-1}, SmallSizes, {0}, StoreVals)
    \/ DoMunmap
\* Reads of both kinds, with a bridge that answers or fails each read: one
\* stream handle and one descriptor, opened, read in steps of 1 and 2 bytes,
\* and closed
NextRead ==
    \/ DoFopen(1)
    \/ DoFclose
    \/ DoFread({<<1, 1, 1>>, <<1, 1, 2>>})
    \/ DoOpen({<<"model.bin">>})
    \/ DoClose({-1})
    \/ DoRead({-1}, {1, 2})
SpecRead == Init /\ [][NextRead]_vars

SpecMap == Init /\ [][NextMap]_vars

\* Lengths passed to map: 0, one that fits, one as large as the arena, and
\* one near the top of the size_t range.
MapLengths == {0, 8 * MaxReqUnits, ArenaBytes, Word - 9}
\* One descriptor opened, its cursor moved, and mapped with any of these
\* lengths
NextMapAny ==
    \/ DoOpen({<<"model.bin">>})
    \/ DoLseek({-1}, {1}, {"SEEK_SET"})
    \/ DoMmap({-1}, MapLengths, {0}, {9})
    \/ DoMunmap
SpecMapAny == Init /\ [][NextMapAny]_vars

\* Stream calls on one handle among descriptor opens and closes, maps that
\* ask for the whole arena or for a length near the top of the size_t range,
\* and unmaps
NextMixed ==
    \/ DoFopen(1)
    \/ DoFclose
    \/ DoFread({<<1, 1, 1>>})
    \/ DoFseek({1}, {"SEEK_SET"})
    \/ DoOpen({<<"model.bin">>})
    \/ DoClose({-1})
    \/ DoMmap({-1}, {ArenaBytes - HeaderSize, Word - 9}, {0}, {9})
    \/ DoMunmap
SpecMixed == Init /\ [][NextMixed]_vars

\* ------------------------------------------------------------ block structure
\* The blocks met from address b by repeatedly advancing by each block's
\* size, as the scan of malloc does; the walk stops at a block of size 0.
RECURSIVE Walk(_, _, _)
Walk(m, b, fuel) ==
    IF ~(b < heap_end) \/ b \notin Addr \/ fuel = 0 THEN <<>>
    ELSE LET blk == [addr |-> b, size |-> SizeOf(m[b]), used |-> IsUsed(m[b]),
                     prev |-> Rd(m, b + 4)]
         IN IF blk.size = 0 THEN <<blk>>
            ELSE <<blk>> \o Walk(m, U(b + blk.size), fuel - 1)

Blocks(m) == Walk(m, heap_start, Cardinality(Addr))

SumSizes(bs) ==
    LET sum[i \in 0 .. Len(bs)] == IF i = 0 THEN 0 ELSE sum[i - 1] + bs[i].size
    IN sum[Len(bs)]

\* The walk lands exactly on heap_end.
Tiles(m) ==
    LET bs == Blocks(m) IN
    /\ bs # <<>>
    /\ \A i \in 1 .. Len(bs) : bs[i].size > 0
    /\ bs[Len(bs)].addr + bs[Len(bs)].size = heap_end

BacklinksOk(m) ==
    LET bs == Blocks(m) IN
    \A i \in 1 .. Len(bs) : bs[i].prev = IF i = 1 THEN 0 ELSE bs[i - 1].size

NoAdjacentFree(m) ==
    LET bs == Blocks(m) IN
    \A i \in 1 .. (Len(bs) - 1) : bs[i].used \/ bs[i + 1].used

FreeBlockFits(m, needed) ==
    \E i \in 1 .. Len(Blocks(m)) : ~Blocks(m)[i].used /\ Blocks(m)[i].size >= needed

\* The layout of the arena: addresses, sizes, used flags and backlinks.
Layout(m) == Blocks(m)

\* The cells of the arena.
ArenaCells == {a \in Addr : heap_start <= a /\ a < heap_end}

\* The bytes of the block headers.
HeaderBytes(m) ==
    UNION {Blocks(m)[i].addr .. (Blocks(m)[i].addr + HeaderSize - 1) : i \in 1 .. Len(Blocks(m))}

\* The usable range [p, p + n) of a live allocation.
Range(p) == p .. (p + live[p] - 1)

\* The last call returned (it neither hangs nor accesses memory outside RAM).
Returned == fault = "none"

\* --------------------------------------------------------------------- claims
\* C1: between calls of a sequence of allocate, release, reallocate and
\* zero-fill-allocate calls on live pointers, walking the blocks from the
\* arena start by adding each block's size lands exactly on the arena end, so
\* the block sizes sum to the arena size.
C1_WalkTilesArena ==
    Returned => /\ Tiles(mem)
                /\ SumSizes(Blocks(mem)) = heap_end - heap_start

\* C2: between calls of a sequence of allocate/release/reallocate calls on
\* live pointers, the first block's backlink is 0 and every other block's
\* backlink is the size of the block just before it.
C2_BacklinksMatch ==
    Returned => BacklinksOk(mem)

\* C3: between calls of a valid allocate/release/reallocate sequence, and so
\* right after every release of a live pointer, no two address-adjacent
\* blocks are both free.
C3_NoTwoFreeNeighbours ==
    Returned => NoAdjacentFree(mem)

\* C4: when allocate(n), n > 0, returned p and release(p) is called right
\* after it, the block layout is again the one before the allocate.
C4_AllocReleaseRestores ==
    chain.stage = "mf" => /\ Returned
                          /\ Layout(mem) = Layout(chain.pre)

\* C5: the usable ranges [p, p + n) of the live allocations are pairwise
\* disjoint, lie inside the arena and overlap no block header, and a
\* successful allocation never returns a pointer that is live already.
C5_LiveRangesApart ==
    Returned =>
        /\ \A p \in DOMAIN live :
               /\ heap_start <= p /\ p + live[p] <= heap_end
               /\ Range(p) \cap HeaderBytes(mem) = {}
        /\ \A p, q \in DOMAIN live : p # q => Range(p) \cap Range(q) = {}
        /\ ~last.dup

\* C6: when allocate(n), n > 0, returned p, release(p) followed at once by
\* allocate(n) returns the same address p.
C6_ReleasedBlockReused ==
    chain.stage = "mfm" => /\ Returned
                           /\ last.ret = chain.p

\* The reuse happens for a block that is not the first of the arena while
\* another allocation is live.
C6_Witness ==
    /\ chain.stage = "mfm"
    /\ Returned
    /\ last.ret = chain.p
    /\ chain.p > heap_start + HeaderSize
    /\ Cardinality(DOMAIN live) >= 2

\* C7: after a sequence of calls that includes erroneous releases (of a
\* pointer released before, or of an in-arena address that is not the payload
\* start of a live block), the block sizes still sum to the arena size and
\* every backlink is still the size of the block before it.
C7_BadReleaseKeepsStructure ==
    Returned => /\ Tiles(mem)
                /\ SumSizes(Blocks(mem)) = heap_end - heap_start
                /\ BacklinksOk(mem)

\* C8: release(p) for a non-null p outside the arena (p < start or p >= end)
\* is a no-op: it returns and no byte inside the arena has changed.
C8_OutsideReleaseNoOp ==
    (last.op = "free" /\ last.a # NULL /\ (last.a < heap_start \/ last.a >= heap_end))
        => /\ Returned
           /\ \A a \in ArenaCells : mem[a] = last.pre[a]

\* C9: release(NULL), and release(p) whose header address p - sizeof(header)
\* is below the arena start or at/after the arena end, returns without
\* reading or writing any memory and leaves RAM as it was; releasing the
\* first block (backlink 0) never enters the backward merge and accesses no
\* memory below the arena start.
C9_QuietRelease ==
    /\ (last.op = "free" /\ (\/ last.a = NULL
                             \/ U(last.a - HeaderSize) < heap_start
                             \/ U(last.a - HeaderSize) >= heap_end))
           => /\ Returned
              /\ last.acc = {}
              /\ mem = last.pre
    /\ (last.op = "free" /\ last.a = heap_start + HeaderSize
                         /\ last.pre[heap_start + 4] = 0)
           => /\ ~last.back
              /\ \A a \in last.acc : a >= heap_start

\* A release of a non-null pointer whose header address is at or after the
\* arena end returned while an allocation was live, and touched nothing.
C9_Witness ==
    /\ last.op = "free"
    /\ last.a # NULL
    /\ U(last.a - HeaderSize) >= heap_end
    /\ DOMAIN live # {}
    /\ Returned
    /\ last.acc = {}
    /\ mem = last.pre

\* C10: allocate(0) fails in every state; allocate(n), n > 0, fails exactly
\* when no free block has at least the required size; a failing allocate
\* returns NULL and leaves every header and the arena bounds as they were.
C10_FailingAllocate ==
    last.op = "malloc" =>
        /\ last.a = 0 => (Returned /\ last.ret = NULL)
        /\ last.a > 0 => /\ ~FreeBlockFits(last.pre, align_size(last.a))
                                => (Returned /\ last.ret = NULL)
                         /\ (Returned /\ last.ret = NULL)
                                => ~FreeBlockFits(last.pre, align_size(last.a))
        /\ (Returned /\ last.ret = NULL)
                => /\ mem = last.pre
                   /\ heap_start = heap_init(ZeroMem, ArenaStart, ArenaBytes).heap_start
                   /\ heap_end = heap_init(ZeroMem, ArenaStart, ArenaBytes).heap_end

\* C11 as stated: reallocate(p, n) on a live pointer p whose block is
\* already as large as the required block size for n returns p and changes
\* no header.
C11_InPlaceAnySize ==
    (last.op = "realloc" /\ last.a # NULL
        /\ align_size(last.b) <= SizeOf(Rd(last.pre, U(last.a - HeaderSize))))
        => /\ Returned
           /\ last.ret = last.a
           /\ mem = last.pre

\* C11: reallocate(p, n), n > 0, on a live pointer p whose block is already
\* as large as the required block size for n returns p and leaves RAM, and so
\* every block's size, flag and backlink, as it was (no shrink, no split).
C11_InPlace ==
    (last.op = "realloc" /\ last.a # NULL /\ last.b > 0
        /\ align_size(last.b) <= SizeOf(Rd(last.pre, U(last.a - HeaderSize))))
        => /\ Returned
           /\ last.ret = last.a
           /\ mem = last.pre

\* A reallocate to a size that needs a smaller block than the one p has
\* returned p.
C11_Witness ==
    /\ last.op = "realloc" /\ last.a # NULL /\ last.b > 0
    /\ align_size(last.b) < SizeOf(Rd(last.pre, U(last.a - HeaderSize)))
    /\ Returned
    /\ last.ret = last.a
    /\ mem = last.pre

\* The smaller of two numbers.
Min(x, y) == IF x < y THEN x ELSE y

\* The address b is the start of a block of the walk of m.
IsBlock(m, b) == \E i \in 1 .. Len(Blocks(m)) : Blocks(m)[i].addr = b

\* C12: reallocate(p, n) on a live pointer p that needs a larger block
\* returns NULL and leaves RAM as it was when no free block can hold n;
\* otherwise it returns q # p whose block is used, p's block has been
\* released and coalesced, and the first min(old usable size, n) bytes at q
\* are those that were at p.
C12_GrowMovesOrFails ==
    (last.op = "realloc" /\ last.a # NULL /\ last.b > 0
        /\ align_size(last.b) > SizeOf(Rd(last.pre, U(last.a - HeaderSize))))
        => /\ Returned
           /\ IF ~FreeBlockFits(last.pre, align_size(last.b))
              THEN /\ last.ret = NULL
                   /\ mem = last.pre
                   /\ IsUsed(Rd(mem, U(last.a - HeaderSize)))
              ELSE /\ last.ret # NULL /\ last.ret # last.a
                   /\ IsBlock(mem, U(last.ret - HeaderSize))
                   /\ IsUsed(Rd(mem, U(last.ret - HeaderSize)))
                   /\ IsBlock(mem, U(last.a - HeaderSize))
                          => ~IsUsed(Rd(mem, U(last.a - HeaderSize)))
                   /\ NoAdjacentFree(mem)
                   /\ \A k \in 0 .. Word :
                          (k % 4 = 0 /\ k + 4 <= Min(SizeOf(Rd(last.pre, U(last.a - HeaderSize)))
                                                       - HeaderSize, last.b))
                              => Rd(mem, U(last.ret + k)) = Rd(last.pre, U(last.a + k))

\* C13: when the mathematical product count * elementSize is >= 2^w,
\* zero-fill allocate returns NULL and leaves RAM as it was; when it returns
\* a non-null p, the count * elementSize bytes at p lie inside p's block and
\* are all zero.
C13_ZeroFillAllocate ==
    last.op = "calloc" =>
        /\ last.a * last.b >= Word => (Returned /\ last.ret = NULL /\ mem = last.pre)
        /\ last.ret # NULL =>
              /\ Returned
              /\ last.ret + last.a * last.b
                     <= (last.ret - HeaderSize) + SizeOf(Rd(mem, U(last.ret - HeaderSize)))
              /\ \A c \in Addr : (last.ret <= c /\ c + 4 <= last.ret + last.a * last.b)
                                     => mem[c] = 0

\* start rounded up to a multiple of ALIGNMENT, without wrap-around.
RoundUp8(a) == a + ((ALIGNMENT - (a % ALIGNMENT)) % ALIGNMENT)

\* C14: heap_init(a, s) leaves an arena [start, end) with start = a rounded
\* up to a multiple of 8, end - start a multiple of 8 and [start, end) inside
\* the caller's region [a, a + s); the arena holds one block: free, of size
\* end - start, with backlink 0.
C14_InitArena ==
    last.op = "heap_init" =>
        /\ Returned
        /\ heap_start = RoundUp8(last.a)
        /\ (heap_end - heap_start) % 8 = 0
        /\ last.a <= heap_start /\ heap_start <= heap_end /\ heap_end <= last.a + last.b
        /\ Len(Blocks(mem)) <= 1
        /\ SizeOf(Rd(mem, heap_start)) = heap_end - heap_start
        /\ ~IsUsed(Rd(mem, heap_start))
        /\ Rd(mem, heap_start + 4) = 0

\* C15: for a held handle with cursor c and size S and a bridge whose read
\* succeeds, fread(buf, e, k, f) with e > 0, k > 0 returns
\* min(k, floor((S - c) / e)) and advances the cursor by e times that number
\* (so a read at c = S returns 0 and leaves the cursor at S).
C15_ReadCount ==
    (flast.op = "fread" /\ flast.h # NoFile /\ flast.w = "buf"
        /\ flast.a > 0 /\ flast.b > 0 /\ flast.ok = 0)
        => /\ flast.ret = Min(flast.b, (flast.pre.size - flast.pre.offset) \div flast.a)
           /\ file_table[flast.h].offset = flast.pre.offset + flast.a * flast.ret

\* C16: fseek on a held handle computes the target as offset (SEEK_SET),
\* cursor + offset (SEEK_CUR) or size + offset (SEEK_END); when the target is
\* negative or greater than the size, or the mode is none of the three, it
\* returns -1 and leaves the cursor unchanged; otherwise it returns 0 and the
\* cursor is the target (a target equal to the size included).
C16_SeekTarget ==
    (flast.op = "fseek" /\ flast.h # NoFile)
        => LET target == IF flast.w = "SEEK_SET" THEN flast.a
                         ELSE IF flast.w = "SEEK_CUR" THEN flast.pre.offset + flast.a
                         ELSE flast.pre.size + flast.a
           IN  IF flast.w \notin {"SEEK_SET", "SEEK_CUR", "SEEK_END"}
                    \/ target < 0 \/ target > flast.pre.size
               THEN flast.ret = -1 /\ file_table[flast.h] = flast.pre
               ELSE flast.ret = 0
                    /\ file_table[flast.h] = [flast.pre EXCEPT !.offset = target]

\* a seek to the very end of a slot, from elsewhere, was accepted
C16_Witness ==
    /\ flast.op = "fseek" /\ flast.h # NoFile /\ flast.w = "SEEK_END" /\ flast.a = 0
    /\ flast.pre.size > 0 /\ flast.pre.offset # flast.pre.size
    /\ flast.ret = 0 /\ file_table[flast.h].offset = flast.pre.size

\* C17: an fopen that fails (the name is unknown, no pool entry is free, or
\* the bridge's size query fails) leaves the used flags of the pool, and so
\* the set of held handles and the number of free entries, as they were.
C17_FailedOpenKeepsPool ==
    [][(flast'.op = "fopen" /\ flast'.ret = NoFile)
        => (file_table_used' = file_table_used /\ held' = held)]_vars

\* an open of a known name failed on the size query while one handle was
\* held and entries were free
C17_Witness ==
    /\ flast.op = "fopen" /\ flast.ret = NoFile
    /\ flast.a >= 0 /\ flast.ok = Fail
    /\ Cardinality(held) = 1
    /\ \A i \in Handles : file_table_used[i] = 1 <=> i \in held

\* C18: at most MAX_OPEN_FILES (4) handles are held at once, and they are the
\* entries flagged used; an fopen of a known name whose size query succeeds
\* returns a handle if and only if fewer than 4 handles were held when it was
\* called; and after an fclose of a held handle such an fopen succeeds.
C18_PoolCapacity ==
    [][/\ Cardinality(held') <= MAX_OPEN_FILES
       /\ held' = {i \in Handles : file_table_used'[i] = 1}
       /\ (flast'.op = "fopen" /\ flast'.a >= 0 /\ flast'.ok # Fail)
            => (flast'.ret # NoFile <=> Cardinality(held) < MAX_OPEN_FILES)
       /\ (flast'.op = "fclose" /\ flast'.h \in held)
            => fopen(file_table', file_table_used', <<"model.bin">>, MaxSlotSize).ret # NoFile
      ]_vars

\* an open of a known name, the size query succeeding, failed on a full pool
C18_Witness ==
    /\ flast.op = "fopen" /\ flast.a >= 0 /\ flast.ok # Fail /\ flast.ret = NoFile
    /\ Cardinality(held) = MAX_OPEN_FILES

\* C19: a successful fopen returns a handle that was not held when it was
\* called, and leaves the slot id, size and cursor of every held handle as
\* they were, in any interleaving of opens and closes and also when the same
\* name is opened several times.
C19_OpenSparesHeld ==
    [][(flast'.op = "fopen" /\ flast'.ret # NoFile)
        => /\ flast'.ret \notin held
           /\ \A h \in held :
                /\ file_table'[h].slot_id = file_table[h].slot_id
                /\ file_table'[h].size = file_table[h].size
                /\ file_table'[h].offset = file_table[h].offset
      ]_vars

\* a name was opened while another handle on the same slot was held with its
\* cursor at the end, a lower entry of the pool having been closed before
C19_Witness ==
    /\ flast.op = "fopen" /\ flast.ret # NoFile
    /\ file_table[flast.ret].offset = 0
    /\ \E h \in held \ {flast.ret} :
          /\ h > flast.ret
          /\ file_table[h].slot_id = flast.a
          /\ file_table[h].size > 0
          /\ file_table[h].offset = file_table[h].size

\* C20: a pool entry goes Closed -> Open -> Closed. Every successful fopen
\* turns exactly the entry it returns from Closed to Open, with cursor 0 and
\* the size the bridge reported, whatever cursor the entry's previous holder
\* left in it; the cursor of a held handle changes only in an fread, fseek or
\* rewind on that handle; and an fclose of a held handle turns exactly that
\* entry back to Closed.
C20_HandleLifecycle ==
    [][/\ (flast'.op = "fopen" /\ flast'.ret # NoFile)
            => /\ file_table_used[flast'.ret] = 0
               /\ file_table_used' = [file_table_used EXCEPT ![flast'.ret] = 1]
               /\ file_table'[flast'.ret].offset = 0
               /\ file_table'[flast'.ret].size = flast'.ok
       /\ \A h \in held \cap held' :
            file_table'[h].offset # file_table[h].offset
                => flast'.op \in {"fread", "fseek", "rewind"} /\ flast'.h = h
       /\ (flast'.op = "fclose" /\ flast'.h # NoFile)
            => /\ file_table_used[flast'.h] = 1
               /\ file_table_used' = [file_table_used EXCEPT ![flast'.h] = 0]
               /\ held' = held \ {flast'.h}
      ]_vars

\* an entry whose previous holder left the cursor at the end of the slot was
\* opened again, while another handle was held
C20_Witness ==
    /\ flast.op = "fopen" /\ flast.ret # NoFile
    /\ flast.pre.size > 0 /\ flast.pre.offset = flast.pre.size
    /\ file_table[flast.ret].offset = 0 /\ file_table[flast.ret].size = flast.ok
    /\ Cardinality(held) > 1

\* The blocks of the walk of m that lie below address b.
Below(m, b) == {i \in 1 .. Len(Blocks(m)) : Blocks(m)[i].addr < b}

\* C24: whenever allocate(n) returns p, p's block was free and at least as
\* large as the required block size, and every block at a lower address was
\* used or smaller than the required size (first fit).
C24_FirstFit ==
    (last.op = "malloc" /\ last.ret # NULL)
        => /\ IsBlock(last.pre, U(last.ret - HeaderSize))
           /\ ~IsUsed(Rd(last.pre, U(last.ret - HeaderSize)))
           /\ SizeOf(Rd(last.pre, U(last.ret - HeaderSize))) >= align_size(last.a)
           /\ \A i \in Below(last.pre, U(last.ret - HeaderSize)) :
                  \/ Blocks(last.pre)[i].used
                  \/ Blocks(last.pre)[i].size < align_size(last.a)

\* an allocation passed over a free block that was too small for it
C24_Witness ==
    /\ last.op = "malloc" /\ last.ret # NULL /\ Returned
    /\ \E i \in Below(last.pre, U(last.ret - HeaderSize)) :
          /\ ~Blocks(last.pre)[i].used
          /\ Blocks(last.pre)[i].size > 0
          /\ Blocks(last.pre)[i].size < align_size(last.a)

\* C25: when allocate(n) returns the block at b, which was free with size B,
\* and R is the required size: if B - R >= MIN_BLOCK_SIZE, the block is used
\* with size R, the block at b + R is free with size B - R and backlink R, and
\* the block at b + B, if below the arena end, has backlink B - R; otherwise
\* the block is used with size B and no other cell of RAM has changed.
C25_SplitOrWhole ==
    (last.op = "malloc" /\ last.ret # NULL)
        => LET b == U(last.ret - HeaderSize)
               B == SizeOf(Rd(last.pre, b))
               R == align_size(last.a)
           IN  /\ Returned
               /\ IsUsed(Rd(mem, b))
               /\ IF B - R >= MIN_BLOCK_SIZE
                  THEN /\ SizeOf(Rd(mem, b)) = R
                       /\ ~IsUsed(Rd(mem, b + R))
                       /\ SizeOf(Rd(mem, b + R)) = B - R
                       /\ Rd(mem, b + R + 4) = R
                       /\ b + B < heap_end => Rd(mem, b + B + 4) = B - R
                  ELSE /\ SizeOf(Rd(mem, b)) = B
                       /\ \A a \in Addr \ {b} : mem[a] = last.pre[a]

\* C26: for every request size n of the word range, whenever allocate(n)
\* returns a non-null pointer, the usable capacity of the block allocated
\* (its size minus the header size) is at least n.
C26_CapacityCoversRequest ==
    (last.op = "malloc" /\ last.ret # NULL)
        => SizeOf(Rd(mem, U(last.ret - HeaderSize))) - HeaderSize >= last.a

\* C28: between the calls of a sequence of allocate, release, reallocate and
\* zero-fill-allocate calls on live pointers every block of the walk has a
\* positive size, and no allocate (called directly or by reallocate or
\* zero-fill allocate) scans without end.
C28_AllocateTerminates ==
    /\ Returned => \A i \in 1 .. Len(Blocks(mem)) : Blocks(mem)[i].size > 0
    /\ last.op \in {"malloc", "calloc", "realloc"} => fault # "hang"

\* A malloc of the main context has returned after an interrupt handler's
\* malloc ran between its scan and its writes.
Interrupted == inflight.stage = "done" /\ inflight.irq /\ last.op = "malloc"

\* C27 as stated: whenever an interrupt handler's allocate ran to completion
\* between the main call's choice of a block and its header write, then after
\* both calls neither has returned NULL and the arena invariants are broken:
\* both callers hold the same pointer, two live ranges overlap, or the block
\* sizes no longer tile the arena.
C27_AnyInterruptBreaks ==
    Interrupted
        => /\ last.ret # NULL /\ inflight.iret # NULL
           /\ \/ last.dup
              \/ \E p, q \in DOMAIN live : p # q /\ Range(p) \cap Range(q) # {}
              \/ ~Tiles(mem)
              \/ SumSizes(Blocks(mem)) # heap_end - heap_start

\* C27: when the interrupt handler's allocate chose the block the main call
\* had chosen, both calls return the same non-null pointer (neither reports
\* an error) and the block is used; when it chose another block or failed,
\* the main call's pointer is not the interrupt handler's.
C27_SameBlockTwice ==
    Interrupted
        => IF inflight.iret = U(inflight.block + HeaderSize)
           THEN /\ last.ret # NULL
                /\ last.ret = inflight.iret
                /\ last.dup
                /\ IsUsed(Rd(mem, inflight.block))
           ELSE last.ret # inflight.iret

\* both calls asked for different sizes, no request in the wrap-around
\* range, and hold the same pointer
C27_Witness ==
    /\ Interrupted
    /\ Returned
    /\ inflight.n \notin WrapSizes /\ inflight.in \notin WrapSizes
    /\ inflight.n # inflight.in
    /\ last.ret = inflight.iret /\ last.ret # NULL
    /\ last.dup

\* C29: every held stream handle has 0 <= cursor <= size after any sequence
\* of fopen, fread, fseek and rewind calls; the remaining-byte count
\* size - cursor that fread computes does not underflow, and every bridge read
\* fread issues ends at or before the recorded size.
C29_CursorWithinSize ==
    /\ \A h \in held : 0 <= file_table[h].offset /\ file_table[h].offset <= file_table[h].size
    /\ (flast.op = "fread" /\ flast.h # NoFile)
          => /\ U(flast.pre.size - flast.pre.offset) = flast.pre.size - flast.pre.offset
             /\ \A i \in 1 .. Len(flast.rd) :
                    /\ flast.rd[i].offset = flast.pre.offset
                    /\ flast.rd[i].offset + flast.rd[i].length <= flast.pre.size

\* a read from a cursor inside the slot asked for more bytes than remained and
\* issued a bridge read that ends exactly at the size
C29_Witness ==
    /\ flast.op = "fread" /\ flast.h \in held /\ flast.ret > 0
    /\ flast.pre.offset > 0
    /\ flast.a * flast.b > flast.pre.size - flast.pre.offset
    /\ Len(flast.rd) = 1
    /\ flast.rd[1].offset + flast.rd[1].length = flast.pre.size
    /\ file_table[flast.h].offset = flast.pre.size

\* The table entry of the descriptor of the last descriptor call.
Entry ==
    [offset |-> fd_offset[FD_TO_SLOT(dlast.fd)], size |-> fd_size[FD_TO_SLOT(dlast.fd)],
     used |-> fd_used[FD_TO_SLOT(dlast.fd)]]

\* C22: open on a slot whose descriptor is open returns -1 and leaves the
\* slot's cursor, size and used flag as they were; close of an open
\* descriptor clears the flag, and an open of the slot after it, the size
\* query succeeding, returns the descriptor with cursor 0.
C22_OpenTwiceFails ==
    /\ (dlast.op = "open" /\ dlast.fd < 0 /\ dlast.pre.used # 0)
          => (dlast.ret = -1 /\ Entry = dlast.pre)
    /\ (dlast.op = "open" /\ dlast.fd < 0 /\ dlast.pre.used = 0 /\ dlast.ok # Fail)
          => (dlast.ret = dlast.fd /\ Entry = [offset |-> 0, size |-> dlast.ok, used |-> 1])
    /\ (dlast.op = "close" /\ FD_TO_SLOT(dlast.fd) \in DescSlots /\ dlast.pre.used # 0)
          => (dlast.ret = 0 /\ Entry = [dlast.pre EXCEPT !.used = 0])

\* an open of a slot whose descriptor was open with the cursor moved failed
C22_Witness ==
    /\ dlast.op = "open" /\ dlast.fd < 0
    /\ dlast.pre.used = 1 /\ dlast.pre.offset > 0 /\ dlast.pre.size > 0
    /\ dlast.ok # Fail
    /\ dlast.ret = -1
    /\ Entry = dlast.pre

\* C30: every open descriptor has cursor <= size after any sequence of
\* descriptor read and lseek calls; a read on an open descriptor returns at
\* most size - cursor bytes, and every bridge read it issues ends at or before
\* the recorded size.
C30_DescCursorWithinSize ==
    /\ \A i \in DescSlots : fd_used[i] # 0 => fd_offset[i] <= fd_size[i]
    /\ (dlast.op = "read" /\ FD_TO_SLOT(dlast.fd) \in DescSlots /\ dlast.pre.used # 0)
          => /\ dlast.ret <= dlast.pre.size - dlast.pre.offset
             /\ \A i \in 1 .. Len(dlast.rd) :
                    dlast.rd[i].offset + dlast.rd[i].length <= dlast.pre.size

\* C21: an operation on an unopened handle or descriptor has no effect. A
\* read or seek on a stream handle that was closed returns 0 (read) or -1
\* (seek), issues no bridge read and changes no pool entry; read, seek, close
\* or map on a descriptor that is not open returns -1 (MAP_FAILED for map),
\* issues no bridge read, changes no descriptor entry and allocates nothing;
\* a write returns 0 and changes nothing.
C21_UnopenedNoEffect ==
    [][/\ (flast'.op \in {"fread", "fseek"} /\ flast'.h \in Handles \ held)
            => /\ flast'.ret = (IF flast'.op = "fread" THEN 0 ELSE -1)
               /\ flast'.rd = <<>>
               /\ UNCHANGED <<file_table, file_table_used, dtab, mem, live>>
       /\ flast'.op = "fwrite"
            => /\ flast'.ret = 0
               /\ flast'.rd = <<>>
               /\ UNCHANGED <<file_table, file_table_used, dtab, mem, live>>
       /\ (dlast'.op \in {"read", "lseek", "close", "mmap"}
           /\ NotOpen(fd_used, FD_TO_SLOT(dlast'.fd)))
            => /\ dlast'.ret = (IF dlast'.op = "mmap" THEN MAP_FAILED ELSE -1)
               /\ dlast'.rd = <<>>
               /\ UNCHANGED <<file_table, file_table_used, dtab, mem, live>>
      ]_vars

\* The buffer p is a live allocation in m: its header starts a block of the
\* walk, the block is used and its usable size covers the length asked for.
Owned(m, p) ==
    /\ IsBlock(m, U(p - HeaderSize))
    /\ IsUsed(Rd(m, U(p - HeaderSize)))
    /\ live[p] <= SizeOf(Rd(m, U(p - HeaderSize))) - HeaderSize

\* The header and the cells of the buffer p are in m as they were before the
\* last call.
Untouched(m, p) ==
    /\ Rd(m, U(p - HeaderSize)) = Rd(last.pre, U(p - HeaderSize))
    /\ \A a \in Addr : (p <= a /\ a < p + live[p]) => m[a] = last.pre[a]

\* C23: successful map calls on the same open descriptor, with any lengths
\* that fit the arena, return distinct, pairwise non-overlapping heap buffers,
\* each a live allocation, and a new mapping leaves the earlier buffers'
\* contents as they were; unmapping one buffer releases that buffer's block
\* only: no used block holds its address any more, and every other buffer is
\* still a live allocation with its header and contents unchanged.
C23_MapsIndependent ==
    /\ (last.op = "mmap" /\ last.ret # MAP_FAILED)
          => /\ Returned
             /\ last.ret \in DOMAIN live
             /\ ~last.dup
             /\ \A p \in DOMAIN live : Owned(mem, p)
             /\ \A p, q \in DOMAIN live : p # q => Range(p) \cap Range(q) = {}
             /\ \A q \in (DOMAIN live) \ {last.ret} : Untouched(mem, q)
    /\ (last.op = "munmap" /\ last.a \notin {NULL, MAP_FAILED})
          => /\ Returned
             /\ \A i \in 1 .. Len(Blocks(mem)) :
                    Blocks(mem)[i].used
                        => ~(Blocks(mem)[i].addr <= last.a
                             /\ last.a < Blocks(mem)[i].addr + Blocks(mem)[i].size)
             /\ \A q \in DOMAIN live : Owned(mem, q) /\ Untouched(mem, q)

\* Two buffers were mapped and filled, one of them has just been unmapped and
\* the other is live and holds the bridge's data.
C23_Witness ==
    /\ last.op = "munmap"
    /\ last.a \in ArenaCells
    /\ dlast.op = "munmap"
    /\ \E q \in DOMAIN live : live[q] >= 8 /\ mem[q] \in StoreVals

\* C31: for every resolvable slot, the value a successful open returns (the
\* name resolves, the slot was not open and the size query succeeded, so the
\* slot is open afterwards) differs from -1, the value of a failed open, and
\* maps back to the slot.
C31_OpenValueTellsSuccess ==
    (/\ dlast.op = "open"
     /\ FD_TO_SLOT(dlast.fd) \in DescSlots
     /\ dlast.pre.used = 0
     /\ dlast.ok # Fail)
        => /\ fd_used[FD_TO_SLOT(dlast.fd)] # 0
           /\ FD_TO_SLOT(dlast.ret) = FD_TO_SLOT(dlast.fd)
           /\ dlast.ret # -1

\* C32: a failed map call leaks nothing. When map returns the failure value
\* (the descriptor is not open, the length is 0 or no block fits, or the
\* bridge read failed after the buffer was allocated), the call has returned
\* and the arena's block layout is the one before the call; after every map
\* call, failed or not, the descriptor's cursor, size and flag are unchanged.
C32_FailedMapLeaksNothing ==
    /\ (dlast.op = "mmap" /\ dlast.ret = MAP_FAILED)
          => /\ Returned
             /\ Layout(mem) = Layout(last.pre)
    /\ (dlast.op = "mmap" /\ FD_TO_SLOT(dlast.fd) \in DescSlots)
          => Entry = dlast.pre

\* C33: when the bridge read fails, a stream read returns 0 and a descriptor
\* read returns -1, and the pool and the descriptor tables are left as they
\* were, so the cursor is where it was; a retry of the same read right after
\* it issues the same bridge read (same slot, offset and length).
C33_FailedReadKeepsCursor ==
    [][/\ (flast'.op = "fread" /\ flast'.rd # <<>> /\ flast'.ok = Fail)
            => /\ flast'.ret = 0
               /\ UNCHANGED <<file_table, file_table_used, dtab>>
       /\ (dlast'.op = "read" /\ dlast'.rd # <<>> /\ dlast'.ok = Fail)
            => /\ dlast'.ret = -1
               /\ UNCHANGED <<file_table, file_table_used, dtab>>
       /\ (/\ flast.op = "fread" /\ flast.rd # <<>> /\ flast.ok = Fail
           /\ flast'.op = "fread" /\ flast'.h = flast.h
           /\ flast'.a = flast.a /\ flast'.b = flast.b /\ flast'.w = flast.w)
            => flast'.rd = flast.rd
       /\ (/\ dlast.op = "read" /\ dlast.rd # <<>> /\ dlast.ok = Fail
           /\ dlast'.op = "read" /\ dlast'.fd = dlast.fd /\ dlast'.a = dlast.a)
            => dlast'.rd = dlast.rd
      ]_vars

\* A stream read whose bridge read failed, with the cursor past the start.
C33_Witness ==
    /\ flast.op = "fread"
    /\ flast.rd # <<>>
    /\ flast.ok = Fail
    /\ flast.ret = 0
    /\ flast.pre.offset > 0
    /\ file_table[flast.h].offset = flast.pre.offset

====
